---------------------------- MODULE Spec2Model ----------------------------
(***************************************************************************)
(* News-article agent: the ingestion pipeline (message handler, dedup     *)
(* cache, content processing, vector-store upsert with retry) and the     *)
(* query router (URL-mode and knowledge-mode).                            *)
(*                                                                         *)
(* Strings that the code inspects (URLs, message payloads, error          *)
(* messages) are sequences of tokens; strings the code only copies        *)
(* (titles, contents, dates, answers) are atomic.                         *)
(***************************************************************************)
EXTENDS Integers, Sequences, FiniteSets, TLC

VARIABLES
    overlap,                \* may two ingestions be in flight at once
    recentlyProcessedUrls,  \* kafkaConsumer.ts: the dedup cache
    index,                  \* the Pinecone index: id -> record
    pc,                     \* per handler: the await it is suspended at
    url,                    \* per handler: the url parsed from the message
    article,                \* per handler: processUrl's article
    vector,                 \* per handler: processUrl's vector
    retryCount,             \* per handler: upsertVector's retryCount
    lastError,              \* per handler: upsertVector's lastError
    raised,                 \* per handler: message of the error handleUrlIngestion threw
    outcome,                \* per handler: how the last handling ended
    log,                    \* per handler: capability calls of this handling, in order
    handled,                \* messages delivered so far
    windowWork,             \* per url: handlings that reached the fetch since the last expiry
    okInWindow,             \* urls whose handling returned normally since the last clear
    dupOfOk,                \* per handler: its message's url was in okInWindow on receipt
    presentAtCall,          \* per handler: the id was stored when upsertVector was entered
    writes,                 \* per id: successful index.upsert calls
    qpc,                    \* the query: the await it is suspended at
    query,                  \* the query: payload.query
    scenario,               \* the query: how each capability answers during it
    qArticle,               \* the query: processUrl's article (URL-mode)
    qSources,               \* the query: querySimilarVectors' sources (knowledge-mode)
    qPrompt,                \* the query: the prompt handed to generateText
    qlog,                   \* the query: capability calls, in order
    response,               \* the query: what handleQuery gave its caller
    mainPc,                 \* startup: the await main is suspended at
    pineconeClient,         \* pineconeService.ts: is the client instance set
    remoteIndex,            \* the index as Pinecone has it: None, or its status and dimension
    enableKafka,            \* process.env.ENABLE_KAFKA === 'true'
    checkInterval,          \* startup: is the status poll's timer armed
    inFlight,               \* startup: describeIndex calls of the poll not yet settled
    pollAnswers,            \* startup: the answers the poll's calls have had
    indexCreated,           \* startup: createIndex succeeded
    pineconeInitialized,    \* startup: initializePinecone returned normally
    dimensionWarned,        \* startup: the dimension mismatch warning was logged
    consumerRunning,        \* startup: consumer.run was started
    serverListening,        \* startup: startServer returned
    exitCode,               \* startup: None, or the code process.exit was called with
    startupError,           \* startup: message of the error initializePinecone threw
    consumerFailed,         \* startup: startKafkaConsumer threw and main logged it
    storeCalls,             \* pineconeService.ts: the calls made, each with the client's state
    textPc,                 \* embedding text: how far processUrl / generateEmbeddings got
    textArticle,            \* embedding text: the article's title and content, as characters
    contentForEmbedding,    \* embedding text: processUrl's contentForEmbedding
    truncatedText,          \* embedding text: generateEmbeddings' truncatedText
    extractPc,              \* extraction: has cleanAndStructureHtml returned
    responseText,           \* extraction: the structuring capability's response
    extractUrl,             \* extraction: the url being extracted
    extracted,              \* extraction: what cleanAndStructureHtml returned
    messagePc,              \* message parsing: has the handler parsed the message
    messageShape,           \* message parsing: what the producer put into the payload
    messageValue,           \* message parsing: message.value, None or a text
    handedUrl,              \* message parsing: the url given to handleUrlIngestion
    routePc,                \* POST /agent: the middleware or handler the request is at
    reqQuery,               \* POST /agent: body.query as received
    bodyQuery,              \* POST /agent: req.body.query as the middleware left it
    httpStatus,             \* POST /agent: the status of the response, None while there is none
    handleQueryArg          \* POST /agent: the query handleQuery was called with

ingestVars == <<overlap, recentlyProcessedUrls, index, pc, url, article, vector,
                retryCount, lastError, raised, outcome, log, handled,
                windowWork, okInWindow, dupOfOk, presentAtCall, writes>>

queryVars == <<qpc, query, scenario, qArticle, qSources, qPrompt, qlog, response>>

startVars == <<mainPc, pineconeClient, remoteIndex, enableKafka, checkInterval, inFlight,
               pollAnswers, indexCreated, pineconeInitialized, dimensionWarned,
               consumerRunning, serverListening, exitCode, startupError,
               consumerFailed, storeCalls>>

textVars == <<textPc, textArticle, contentForEmbedding, truncatedText>>

extractVars == <<extractPc, responseText, extractUrl, extracted>>

messageVars == <<messagePc, messageShape, messageValue, handedUrl>>

routeVars == <<routePc, reqQuery, bodyQuery, httpStatus, handleQueryArg>>

unitVars == <<textVars, extractVars, messageVars, routeVars>>

vars == <<ingestVars, queryVars, startVars, unitVars>>

-----------------------------------------------------------------------------
(* Bounds *)

MaxMessages == 3

(* messages delivered while ingestions may overlap *)
MaxOverlapping == 2

(* describeIndex calls of the startup poll that may be pending at once *)
MaxInFlight == 2

(* kafkaConsumer.ts:17 sets 1000; the cap keeps its role (clear when the   *)
(* size exceeds it) at a size the bounded set of urls can exceed.          *)
MAX_CACHE_SIZE == 2

(* lengths of the titles and contents whose embedding text is built *)
MaxTitleLen == 4

MaxContentLen == 9

(* contentProcessor.ts:209 sets 12000, and line 29 cuts the content at   *)
(* 8000; the two cuts keep their roles and their order (a cut content    *)
(* with a short title stays under the cap, with a long title it does     *)
(* not) at lengths the bounded texts can exceed.                         *)
MAX_EMBED_TEXT_LENGTH == 9

CONTENT_PREFIX_LENGTH == 4

(* Program constants *)

(* a retry loop that allows one more retry *)
MAX_RETRIES_OneMore == 2 + 1

MAX_RETRIES == 2

EMBEDDING_DIMENSION == 768

Handlers == {1, 2}

-----------------------------------------------------------------------------
(* Strings *)

EmptyStr == <<>>

UrlA == <<"https:", "//example.com/a">>
UrlB == <<"http:", "//example.com/b">>
FtpUrl == <<"ftp:", "//example.com/c">>
PlainText == <<"what happened in the wildfires">>

Schemes == {"http:", "https:", "ftp:"}

(* new URL(s) succeeds iff s is scheme + rest *)
UrlParses(s) == Len(s) >= 2 /\ s[1] \in Schemes

Protocol(s) == s[1]

(* a validity test that accepts any url that parses, whatever its scheme *)
isValidUrl_AnyScheme(s) ==
    IF s = EmptyStr THEN FALSE
    ELSE IF UrlParses(s) THEN TRUE
    ELSE FALSE

(* helpers.ts isValidUrl *)
isValidUrl(s) ==
    IF s = EmptyStr THEN FALSE
    ELSE IF UrlParses(s) THEN Protocol(s) = "http:" \/ Protocol(s) = "https:"
    ELSE FALSE

(* `${label}: ${message}` *)
Wrap(label, message) == <<label>> \o message

Last(s) == s[Len(s)]

-----------------------------------------------------------------------------
(* Optional values: null / undefined is None, a value x is Some(x) *)

None == <<>>
Some(x) == <<x>>
Get(o) == o[1]

-----------------------------------------------------------------------------
(* Message payloads (kafkaConsumer.ts 93-121): message.value is None or a text *)

JsonText(field, value) == <<"{", field>> \o value \o <<"}">>

Payloads ==
    { None,
      Some(UrlA), Some(UrlB), Some(FtpUrl),
      Some(JsonText("value.url", UrlA)),
      Some(JsonText("url", UrlB)),
      Some(JsonText("id", <<"7">>)) }

(* the members of an object, from the tokens between its braces: a field *)
(* name, its value up to the next ",", and so on                         *)
RECURSIVE JsonMembers(_)
JsonMembers(t) ==
    IF t = <<>> THEN <<>>
    ELSE LET rest == Tail(t)
             commas == {i \in DOMAIN rest : rest[i] = ","}
             n == IF commas = {} THEN Len(rest)
                  ELSE (CHOOSE i \in commas : \A j \in commas : i <= j) - 1
         IN  <<[field |-> t[1], value |-> SubSeq(rest, 1, n)]>>
                \o JsonMembers(SubSeq(rest, n + 2, Len(rest)))

(* JSON.parse of the payload text, as far as the handler reads the result: *)
(* the members of an object; no members for a number, which has no fields; *)
(* None for a throw. The text null parses, but reading .value of null      *)
(* throws inside the same try, so it is None too.                          *)
JSONparse(s) ==
    IF Len(s) >= 2 /\ s[1] = "{" /\ s[Len(s)] = "}"
    THEN Some(JsonMembers(SubSeq(s, 2, Len(s) - 1)))
    ELSE IF s = <<"42">> THEN Some(<<>>)
    ELSE None

(* json.field when present and truthy *)
JsonGet(j, field) ==
    IF j # None /\ \E i \in DOMAIN Get(j) :
                      Get(j)[i].field = field /\ Get(j)[i].value # EmptyStr
    THEN Some(Get(j)[CHOOSE i \in DOMAIN Get(j) :
                        Get(j)[i].field = field /\ Get(j)[i].value # EmptyStr].value)
    ELSE None

(* a handler that looks at .url before .value.url *)
MessageUrl_UrlFirst(messageStr) ==
    LET messageJson == JSONparse(messageStr) IN
    IF messageJson = None THEN messageStr
    ELSE IF JsonGet(messageJson, "url") # None
         THEN Get(JsonGet(messageJson, "url"))
    ELSE IF JsonGet(messageJson, "value.url") # None
         THEN Get(JsonGet(messageJson, "value.url"))
    ELSE messageStr

(* kafkaConsumer.ts 101-121: the url of a payload with a value *)
MessageUrl(messageStr) ==
    LET messageJson == JSONparse(messageStr) IN
    IF messageJson = None THEN messageStr
    ELSE IF JsonGet(messageJson, "value.url") # None
         THEN Get(JsonGet(messageJson, "value.url"))
    ELSE IF JsonGet(messageJson, "url") # None
         THEN Get(JsonGet(messageJson, "url"))
    ELSE messageStr

CacheStrings == {MessageUrl(Get(p)) : p \in Payloads \ {None}}

IndexIds == {s \in CacheStrings : isValidUrl(s)}

-----------------------------------------------------------------------------
(* External capabilities: what each call can answer *)

FetchOutcomes == {"ok", "empty", "http_error", "network_error"}

(* a fetch that takes the body whatever the status of the response *)
fetchUrlContent_IgnoresStatus(o) ==
    CASE o = "empty" -> Some("")
      [] o = "network_error" -> None
      [] OTHER -> Some("<html>")

(* fetchUrlContent, contentProcessor.ts 43-63: the html text, or None for null *)
fetchUrlContent(o) ==
    CASE o = "ok" -> Some("<html>")
      [] o = "empty" -> Some("")
      [] OTHER -> None

NoFields == [f \in {} |-> ""]

StructureResponses ==
    { [kind |-> "throw", json |-> NoFields],
      [kind |-> "empty", json |-> NoFields],
      [kind |-> "garbage", json |-> NoFields],
      [kind |-> "json", json |-> [title |-> "A", content |-> "B", date |-> "2024-01-01"]],
      [kind |-> "json", json |-> NoFields] }

(* jsonData.f || dflt *)
FieldOr(json, f, dflt) ==
    IF f \in DOMAIN json /\ json[f] # "" THEN json[f] ELSE dflt

(* cleanAndStructureHtml, contentProcessor.ts 123-203: Some(Article) or None for null. *)
(* The response is a failed call ("throw"), an empty text ("empty"), a text that is    *)
(* not JSON ("garbage"), the JSON text null ("null": reading jsonData.title throws     *)
(* into the outer catch), JSON that is an array or a scalar ("array": every field      *)
(* reads undefined), or a JSON object ("json") with the fields it has.                 *)
cleanAndStructureHtml(resp, u) ==
    IF resp.kind \in {"throw", "empty", "garbage", "null"} THEN None
    ELSE Some([title |-> FieldOr(resp.json, "title", "Untitled Article"),
               content |-> FieldOr(resp.json, "content", ""),
               date |-> FieldOr(resp.json, "date", ""),
               url |-> u])

EmbedOutcomes == {"throw", "novalues", "empty", "ok"}

Vec(n) == [length |-> n]

(* an embedding call that answers a failure with an empty vector *)
generateEmbeddings_Defaulted(o) ==
    CASE o = "throw" -> Some(Vec(0))
      [] o = "novalues" -> Some(Vec(0))
      [] o = "empty" -> Some(Vec(0))
      [] OTHER -> Some(Vec(EMBEDDING_DIMENSION))

(* generateEmbeddings, contentProcessor.ts 207-229: Some(vector), or None for a throw *)
generateEmbeddings(o) ==
    CASE o = "throw" -> None
      [] o = "novalues" -> None
      [] o = "empty" -> Some(Vec(0))
      [] OTHER -> Some(Vec(EMBEDDING_DIMENSION))

StoreErrors == {"ECONNRESET", "503"}

(* a record built without the article's content *)
PineconeRecord_NoContent(id, values, metadata) ==
    [id |-> id,
     values |-> values,
     metadata |-> [title |-> metadata.title,
                   content |-> "",
                   url |-> metadata.url,
                   date |-> metadata.date]]

(* pineconeService.ts 121-131 *)
PineconeRecord(id, values, metadata) ==
    [id |-> id,
     values |-> values,
     metadata |-> [title |-> metadata.title,
                   content |-> metadata.content,
                   url |-> metadata.url,
                   date |-> metadata.date]]

(* a lookup whose test of the fetched records is inverted *)
vectorExists_Inverted(fetched, id) ==
    IF fetched = "error" THEN FALSE ELSE index[id] = None

(* a lookup that takes an error of index.fetch for a stored record *)
vectorExists_ErrorMeansStored(fetched, id) ==
    IF fetched = "error" THEN TRUE ELSE index[id] # None

(* vectorExists, pineconeService.ts 86-103: fetched is how index.fetch ended *)
vectorExists(fetched, id) ==
    IF fetched = "error" THEN FALSE ELSE index[id] # None

(* upsertVector's throw, pineconeService.ts 158 *)
UpsertFailure(err) == Wrap("Failed to upsert vector to Pinecone", <<err>>)

(* handleUrlIngestion's catches, ingestionService.ts 25-36: the inner wraps, the outer wraps again *)
StorageFailure(message) == Wrap("Vector storage failed", message)

(* an outer catch that throws its label without the caught error's message *)
ProcessingFailure_NoCause(message) == <<"URL processing failed">>

ProcessingFailure(message) == Wrap("URL processing failed", message)

(* a cache without its cap *)
AddToCache_Uncapped(cache, u) == cache \cup {u}

(* a handler that never records the url *)
AddToCache_Forgotten(cache, u) ==
    IF Cardinality(cache \cup {u}) > MAX_CACHE_SIZE THEN {} ELSE cache

(* kafkaConsumer.ts 133-140 *)
AddToCache(cache, u) ==
    IF Cardinality(cache \cup {u}) > MAX_CACHE_SIZE THEN {} ELSE cache \cup {u}

(* a handler that records the url before it knows how ingestion ends *)
CacheAfterCatch_Added(cache, u) == cache \cup {u}

(* handleKafkaMessage's catch, kafkaConsumer.ts 145-153: the cache is as it was *)
CacheAfterCatch(cache, u) == cache

(* a catch that throws the error on to the consumer *)
Caught_Rethrown(message) == "rejected"

(* handleKafkaMessage's catch, kafkaConsumer.ts 145-153: the error is logged *)
(* and the handler returns                                                   *)
Caught(message) == "error"

-----------------------------------------------------------------------------
(* The query router (ragService.ts) *)

Queries == {UrlA, UrlB, FtpUrl, PlainText}

GeneratedText == "<generated text>"

(* generateText, contentProcessor.ts 105-120: Some(text), or None for a throw *)
generateText(o) == IF o = "ok" THEN Some(GeneratedText) ELSE None

(* what a function gives its caller: a response object, or a throw *)
Return(answer, sources) == [kind |-> "return", answer |-> answer, sources |-> sources]
Throw == [kind |-> "throw", answer |-> "", sources |-> <<>>]
NoResponse == [kind |-> "none", answer |-> "", sources |-> <<>>]

(* a catch block that lets the error go on to the caller *)
TryCatch_Rethrow(result, fallback) == result

(* try { return result } catch { return fallback } *)
TryCatch(result, fallback) ==
    IF result.kind = "throw" THEN fallback ELSE result

(* ragService.ts 28-35 *)
UnexpectedError ==
    Return("Sorry, I encountered an unexpected error while processing your request.", <<>>)

(* ragService.ts 45-51 *)
CouldNotProcess ==
    Return("I couldn't process this URL. It may be inaccessible or doesn't contain extractable content.", <<>>)

(* ragService.ts 92-98 *)
UrlQueryError == Return("Encountered an error while processing this URL.", <<>>)

(* ragService.ts 111-117 *)
EmbeddingError == Return("encountered an error while processing your query.", <<>>)

(* ragService.ts 124-130 *)
SearchError == Return("couldn't search our knowledge base at the moment.", <<>>)

(* ragService.ts 133-139 *)
NoInformation == Return("No information related to the query in our knowledge base.", <<>>)

(* ragService.ts 199-205 *)
KnowledgeBaseError == Return("Encountered an error while searching for information.", <<>>)

CouldNotGenerate == "Couldn't generate a response."

FixedAnswers ==
    {r.answer : r \in {UnexpectedError, CouldNotProcess, UrlQueryError, EmbeddingError,
                       SearchError, NoInformation, KnowledgeBaseError}}
    \cup {CouldNotGenerate}

(* s || dflt, for atomic strings *)
StrOr(s, dflt) == IF s = "" THEN dflt ELSE s

(* ragService.ts 56-67 *)
UrlPrompt(a) ==
    [kind |-> "summary", title |-> a.title, url |-> a.url,
     date |-> StrOr(a.date, "Unknown"), content |-> a.content]

(* a source returned as handed to the prompt, content and all *)
cleanedSource_Full(a) ==
    [title |-> a.title, url |-> a.url, date |-> a.date, content |-> a.content]

(* ragService.ts 81-85 and 173-177, 188-192: { title, url, date } *)
cleanedSource(a) == [title |-> a.title, url |-> a.url, date |-> a.date]

(* a fallback that returns no sources *)
cleanedSources_Dropped(sources) == <<>>

cleanedSources(sources) == [i \in DOMAIN sources |-> cleanedSource(sources[i])]

(* a URL-mode that ingests the url it analyses *)
IndexAfterProcessUrl_Stored(idx, a, v) ==
    [idx EXCEPT ![a.url] = Some(PineconeRecord(a.url, v, a))]

(* processUrl, contentProcessor.ts 7-40, as handleUrlQuery calls it: the *)
(* article and the vector are returned, the index is not written         *)
IndexAfterProcessUrl(idx, a, v) == idx

(* pineconeService.ts 187-197: a match's metadata as a Source *)
SourceOf(metadata) ==
    [title |-> StrOr(metadata.title, "Unknown Title"),
     url |-> metadata.url,
     date |-> metadata.date,
     content |-> metadata.content]

(* a search that throws when nothing matches *)
querySimilarVectors_NoMatchThrows(found) ==
    CASE found = <<"error">> -> None
      [] found = <<"none">> -> None
      [] OTHER -> Some(<<SourceOf(Get(index[found]).metadata)>>)

(* querySimilarVectors, pineconeService.ts 162-215, topK = 1: found is how   *)
(* index.query ended: "error", "none" (no match) or the id of the nearest    *)
(* record. Some(sources), or None for a throw                                *)
querySimilarVectors(found) ==
    CASE found = <<"error">> -> None
      [] found = <<"none">> -> Some(<<>>)
      [] OTHER -> Some(<<SourceOf(Get(index[found]).metadata)>>)

(* ragService.ts 143-166 *)
KnowledgePrompt(q, sources) ==
    [kind |-> "grounded", question |-> q,
     information |-> [i \in DOMAIN sources |->
                        [title |-> sources[i].title, url |-> sources[i].url,
                         date |-> StrOr(sources[i].date, "Unknown"),
                         content |-> StrOr(sources[i].content, "Unknown")]]]

NoPrompt == [kind |-> "none"]

SearchOutcomes == {<<"error">>, <<"none">>} \cup IndexIds

NoScenario ==
    [fetch |-> "ok", structure |-> [kind |-> "throw", json |-> NoFields], embed |-> "ok",
     search |-> <<"none">>, generate |-> "ok"]

Scenarios ==
    [fetch : FetchOutcomes, structure : StructureResponses, embed : EmbedOutcomes,
     search : SearchOutcomes, generate : {"ok", "throw"}]

(* the records ingestion can have stored under an id *)
StoredRecords(id) ==
    {PineconeRecord(id, Vec(EMBEDDING_DIMENSION), Get(cleanAndStructureHtml(r, id))) :
        r \in {x \in StructureResponses : x.kind = "json"}}

-----------------------------------------------------------------------------
(* Bookkeeping of one handling *)

Event(op, res) == [op |-> op, res |-> res, ms |-> 0]
Wait(ms) == [op |-> "wait", res |-> "", ms |-> ms]

Logged(w, op) == {i \in DOMAIN log[w] : log[w][i].op = op}
LoggedAs(w, op, res) == {i \in Logged(w, op) : log[w][i].res = res}

(* the outcomes of this handling's index.upsert calls, in order *)
RECURSIVE Attempts(_)
Attempts(l) ==
    IF l = <<>> THEN <<>>
    ELSE IF l[1].op = "write" THEN <<l[1].res>> \o Attempts(Tail(l))
    ELSE Attempts(Tail(l))

(* a delay that grows by one second per retry *)
Pow2_Linear(n) == n

(* Math.pow(2, n), pineconeService.ts 148 *)
RECURSIVE Pow2(_)
Pow2(n) == IF n = 0 THEN 1 ELSE 2 * Pow2(n - 1)

Idle(w) == pc[w] \in {"idle", "done"}

LoggedQ(op, res) == \E i \in DOMAIN qlog : qlog[i].op = op /\ qlog[i].res = res

-----------------------------------------------------------------------------
TypeOK ==
    /\ overlap \in BOOLEAN
    /\ recentlyProcessedUrls \subseteq CacheStrings
    /\ DOMAIN index = IndexIds
    /\ pc \in [Handlers -> {"idle", "fetch", "structure", "embed", "exists", "write",
                            "backoff", "returned", "raised", "done"}]
    /\ handled \in 0..MaxMessages
    /\ okInWindow \subseteq CacheStrings
    /\ dupOfOk \in [Handlers -> BOOLEAN]
    /\ presentAtCall \in [Handlers -> BOOLEAN]

InitCommon ==
    /\ recentlyProcessedUrls = {}
    /\ index = [id \in IndexIds |-> None]
    /\ pc = [w \in Handlers |-> "idle"]
    /\ url = [w \in Handlers |-> EmptyStr]
    /\ article = [w \in Handlers |-> None]
    /\ vector = [w \in Handlers |-> None]
    /\ retryCount = [w \in Handlers |-> 0]
    /\ lastError = [w \in Handlers |-> "null"]
    /\ raised = [w \in Handlers |-> EmptyStr]
    /\ outcome = [w \in Handlers |-> "none"]
    /\ log = [w \in Handlers |-> <<>>]
    /\ handled = 0
    /\ windowWork = [u \in IndexIds |-> 0]
    /\ okInWindow = {}
    /\ dupOfOk = [w \in Handlers |-> FALSE]
    /\ presentAtCall = [w \in Handlers |-> FALSE]
    /\ writes = [id \in IndexIds |-> 0]

InitQueryVars ==
    /\ qpc = "idle"
    /\ query = EmptyStr
    /\ scenario = NoScenario
    /\ qArticle = None
    /\ qSources = <<>>
    /\ qPrompt = NoPrompt
    /\ qlog = <<>>
    /\ response = NoResponse

(* no embedding text, extraction, message or request under study *)
InitTextIdle ==
    /\ textPc = "idle"
    /\ textArticle = [title |-> <<>>, content |-> <<>>]
    /\ contentForEmbedding = None
    /\ truncatedText = None

InitExtractIdle ==
    /\ extractPc = "idle"
    /\ responseText = [kind |-> "empty", json |-> NoFields]
    /\ extractUrl = EmptyStr
    /\ extracted = None

InitMessageIdle ==
    /\ messagePc = "idle"
    /\ messageShape = [value |-> FALSE]
    /\ messageValue = None
    /\ handedUrl = None

InitRouteIdle ==
    /\ routePc = "idle"
    /\ reqQuery = [type |-> "undefined", value |-> <<>>]
    /\ bodyQuery = [type |-> "undefined", value |-> <<>>]
    /\ httpStatus = None
    /\ handleQueryArg = None

InitUnitsIdle == InitTextIdle /\ InitExtractIdle /\ InitMessageIdle /\ InitRouteIdle

(* the service after a startup that found its index ready: client set, *)
(* consumer and server running                                         *)
InitStarted ==
    /\ mainPc = "up"
    /\ pineconeClient = TRUE
    /\ remoteIndex = Some([ready |-> TRUE, dimension |-> EMBEDDING_DIMENSION])
    /\ enableKafka = TRUE
    /\ checkInterval = FALSE
    /\ inFlight = 0
    /\ pollAnswers = {}
    /\ indexCreated = FALSE
    /\ pineconeInitialized = TRUE
    /\ dimensionWarned = FALSE
    /\ consumerRunning = TRUE
    /\ serverListening = TRUE
    /\ exitCode = None
    /\ startupError = EmptyStr
    /\ consumerFailed = FALSE
    /\ storeCalls = {}

(* the consumer as configured: eachMessage is awaited before the next message *)
Init == InitCommon /\ InitQueryVars /\ InitStarted /\ InitUnitsIdle /\ overlap = FALSE

(* several feeds (or a consumer with concurrent partitions) ingest at once *)
InitConcurrent == InitCommon /\ InitQueryVars /\ InitStarted /\ InitUnitsIdle /\ overlap = TRUE

-----------------------------------------------------------------------------
(* handleKafkaMessage, kafkaConsumer.ts 89-130: from the delivery of a message  *)
(* to the first await inside handleUrlIngestion / processUrl                    *)
Receive(w, p) ==
    /\ Idle(w)
    /\ overlap \/ w = 1
    /\ handled < (IF overlap THEN MaxOverlapping ELSE MaxMessages)
    /\ handled' = handled + 1
    /\ article' = [article EXCEPT ![w] = None]
    /\ vector' = [vector EXCEPT ![w] = None]
    /\ retryCount' = [retryCount EXCEPT ![w] = 0]
    /\ lastError' = [lastError EXCEPT ![w] = "null"]
    /\ raised' = [raised EXCEPT ![w] = EmptyStr]
    /\ log' = [log EXCEPT ![w] = <<>>]
    /\ presentAtCall' = [presentAtCall EXCEPT ![w] = FALSE]
    /\ UNCHANGED <<unitVars, startVars, queryVars, overlap, recentlyProcessedUrls, index, okInWindow, writes>>
    /\ IF p = None
       THEN /\ pc' = [pc EXCEPT ![w] = "done"]
            /\ outcome' = [outcome EXCEPT ![w] = "empty"]
            /\ url' = [url EXCEPT ![w] = EmptyStr]
            /\ dupOfOk' = [dupOfOk EXCEPT ![w] = FALSE]
            /\ UNCHANGED windowWork
       ELSE LET u == MessageUrl(Get(p)) IN
            /\ url' = [url EXCEPT ![w] = u]
            /\ dupOfOk' = [dupOfOk EXCEPT ![w] = u \in okInWindow]
            /\ IF u \in recentlyProcessedUrls
               THEN /\ pc' = [pc EXCEPT ![w] = "done"]
                    /\ outcome' = [outcome EXCEPT ![w] = "skip"]
                    /\ UNCHANGED windowWork
               ELSE /\ outcome' = [outcome EXCEPT ![w] = "none"]
                    /\ IF ~isValidUrl(u)
                       THEN /\ pc' = [pc EXCEPT ![w] = "returned"]
                            /\ UNCHANGED windowWork
                       ELSE /\ pc' = [pc EXCEPT ![w] = "fetch"]
                            /\ windowWork' = [windowWork EXCEPT ![u] = @ + 1]

(* processUrl, contentProcessor.ts 15-19 *)
Fetch(w, o) ==
    /\ pc[w] = "fetch"
    /\ log' = [log EXCEPT ![w] = Append(@, Event("fetch", o))]
    /\ LET htmlContent == fetchUrlContent(o) IN
       pc' = [pc EXCEPT ![w] =
                IF htmlContent = None \/ htmlContent = Some("")
                THEN "returned" ELSE "structure"]
    /\ UNCHANGED <<unitVars, startVars, queryVars, overlap, recentlyProcessedUrls, index, url, article, vector,
                   retryCount, lastError, raised, outcome, handled, windowWork,
                   okInWindow, dupOfOk, presentAtCall, writes>>

(* processUrl, contentProcessor.ts 21-26 *)
Structure(w, resp) ==
    /\ pc[w] = "structure"
    /\ LET a == cleanAndStructureHtml(resp, url[w]) IN
       /\ log' = [log EXCEPT ![w] =
                    Append(@, Event("structure", IF a = None THEN "null" ELSE "ok"))]
       /\ article' = [article EXCEPT ![w] = a]
       /\ pc' = [pc EXCEPT ![w] = IF a = None THEN "returned" ELSE "embed"]
    /\ UNCHANGED <<unitVars, startVars, queryVars, overlap, recentlyProcessedUrls, index, url, vector,
                   retryCount, lastError, raised, outcome, handled, windowWork,
                   okInWindow, dupOfOk, presentAtCall, writes>>

(* processUrl, contentProcessor.ts 28-39: the embedding call and processUrl's catch; *)
(* then handleUrlIngestion 17-27 and upsertVector 106-114 up to the lookup           *)
Embed(w, o) ==
    /\ pc[w] = "embed"
    /\ LET v == generateEmbeddings(o) IN
       /\ log' = [log EXCEPT ![w] =
                    Append(@, Event("embed", IF v = None THEN "throw" ELSE "ok"))]
       /\ vector' = [vector EXCEPT ![w] = v]
       /\ pc' = [pc EXCEPT ![w] = IF v = None THEN "returned" ELSE "exists"]
       /\ presentAtCall' = [presentAtCall EXCEPT ![w] = v # None /\ index[url[w]] # None]
    /\ UNCHANGED <<unitVars, startVars, queryVars, overlap, recentlyProcessedUrls, index, url, article,
                   retryCount, lastError, raised, outcome, handled, windowWork,
                   okInWindow, dupOfOk, writes>>

(* upsertVector, pineconeService.ts 114-137 *)
Exists(w, fetched) ==
    /\ pc[w] = "exists"
    /\ LET exists == vectorExists(fetched, url[w]) IN
       /\ log' = [log EXCEPT ![w] =
                    Append(@, Event("exists", IF fetched = "error" THEN "error"
                                              ELSE IF exists THEN "true" ELSE "false"))]
       /\ pc' = [pc EXCEPT ![w] = IF exists THEN "returned" ELSE "write"]
    /\ retryCount' = [retryCount EXCEPT ![w] = 0]
    /\ lastError' = [lastError EXCEPT ![w] = "null"]
    /\ UNCHANGED <<unitVars, startVars, queryVars, overlap, recentlyProcessedUrls, index, url, article, vector,
                   raised, outcome, handled, windowWork,
                   okInWindow, dupOfOk, presentAtCall, writes>>

(* upsertVector, pineconeService.ts 138-143: index.upsert succeeds *)
WriteOk(w) ==
    /\ pc[w] = "write"
    /\ log' = [log EXCEPT ![w] = Append(@, Event("write", "ok"))]
    /\ index' = [index EXCEPT ![url[w]] =
                    Some(PineconeRecord(url[w], Get(vector[w]), Get(article[w])))]
    /\ writes' = [writes EXCEPT ![url[w]] = @ + 1]
    /\ pc' = [pc EXCEPT ![w] = "returned"]
    /\ UNCHANGED <<unitVars, startVars, queryVars, overlap, recentlyProcessedUrls, url, article, vector,
                   retryCount, lastError, raised, outcome, handled, windowWork,
                   okInWindow, dupOfOk, presentAtCall>>

(* upsertVector, pineconeService.ts 144-158: index.upsert throws err; and the *)
(* catches of handleUrlIngestion, ingestionService.ts 25-36, when it gives up *)
WriteFail(w, err) ==
    /\ pc[w] = "write"
    /\ lastError' = [lastError EXCEPT ![w] = err]
    /\ retryCount' = [retryCount EXCEPT ![w] = @ + 1]
    /\ IF retryCount[w] + 1 <= MAX_RETRIES
       THEN /\ log' = [log EXCEPT ![w] =
                         Append(Append(@, Event("write", err)),
                                Wait(Pow2(retryCount[w] + 1) * 1000))]
            /\ pc' = [pc EXCEPT ![w] = "backoff"]
            /\ UNCHANGED raised
       ELSE /\ log' = [log EXCEPT ![w] = Append(@, Event("write", err))]
            /\ pc' = [pc EXCEPT ![w] = "raised"]
            /\ raised' = [raised EXCEPT ![w] =
                            ProcessingFailure(StorageFailure(UpsertFailure(err)))]
    /\ UNCHANGED <<unitVars, startVars, queryVars, overlap, recentlyProcessedUrls, index, url, article, vector,
                   outcome, handled, windowWork,
                   okInWindow, dupOfOk, presentAtCall, writes>>

(* upsertVector, pineconeService.ts 150: the delay has elapsed *)
Backoff(w) ==
    /\ pc[w] = "backoff"
    /\ pc' = [pc EXCEPT ![w] = "write"]
    /\ UNCHANGED <<unitVars, startVars, queryVars, overlap, recentlyProcessedUrls, index, url, article, vector,
                   retryCount, lastError, raised, outcome, log, handled, windowWork,
                   okInWindow, dupOfOk, presentAtCall, writes>>

(* the locals of a handling that ended *)
Forget(w) ==
    /\ url' = [url EXCEPT ![w] = EmptyStr]
    /\ article' = [article EXCEPT ![w] = None]
    /\ vector' = [vector EXCEPT ![w] = None]
    /\ retryCount' = [retryCount EXCEPT ![w] = 0]
    /\ lastError' = [lastError EXCEPT ![w] = "null"]
    /\ raised' = [raised EXCEPT ![w] = EmptyStr]
    /\ log' = [log EXCEPT ![w] = <<>>]
    /\ dupOfOk' = [dupOfOk EXCEPT ![w] = FALSE]
    /\ presentAtCall' = [presentAtCall EXCEPT ![w] = FALSE]

(* handleKafkaMessage, kafkaConsumer.ts 132-143: handleUrlIngestion returned *)
Complete(w) ==
    /\ pc[w] = "returned"
    /\ recentlyProcessedUrls' = AddToCache(recentlyProcessedUrls, url[w])
    /\ okInWindow' = IF Cardinality(recentlyProcessedUrls \cup {url[w]}) > MAX_CACHE_SIZE
                     THEN {} ELSE okInWindow \cup {url[w]}
    /\ pc' = [pc EXCEPT ![w] = "done"]
    /\ outcome' = [outcome EXCEPT ![w] = "ok"]
    /\ Forget(w)
    /\ UNCHANGED <<unitVars, startVars, queryVars, overlap, index, handled, windowWork, writes>>

(* handleKafkaMessage, kafkaConsumer.ts 145-153: handleUrlIngestion threw *)
Catch(w) ==
    /\ pc[w] = "raised"
    /\ pc' = [pc EXCEPT ![w] = "done"]
    /\ outcome' = [outcome EXCEPT ![w] = Caught(raised[w])]
    /\ recentlyProcessedUrls' = CacheAfterCatch(recentlyProcessedUrls, url[w])
    /\ Forget(w)
    /\ UNCHANGED <<unitVars, startVars, queryVars, overlap, index, handled, windowWork,
                   okInWindow, writes>>

(* kafkaConsumer.ts 157-163: the expiry timer *)
ExpiryTick ==
    /\ recentlyProcessedUrls' =
          IF Cardinality(recentlyProcessedUrls) > 0 THEN {} ELSE recentlyProcessedUrls
    /\ okInWindow' = {}
    /\ windowWork' = [u \in IndexIds |-> 0]
    /\ UNCHANGED <<unitVars, startVars, queryVars, overlap, index, pc, url, article, vector,
                   retryCount, lastError, raised, outcome, log, handled,
                   dupOfOk, presentAtCall, writes>>

-----------------------------------------------------------------------------
(* handleQuery, ragService.ts 9-36, around what handleUrlQuery or *)
(* handleKnowledgeBaseQuery gave it                                *)
Respond(inner) ==
    /\ response' = TryCatch(inner, UnexpectedError)
    /\ qpc' = "responded"

(* handleQuery 9-27, and the callee up to its first await *)
QueryStart(q, sc) ==
    /\ qpc = "idle"
    /\ sc.search \in IndexIds => index[sc.search] # None
    /\ query' = q
    /\ scenario' = sc
    /\ qArticle' = None
    /\ qSources' = <<>>
    /\ qPrompt' = NoPrompt
    /\ qlog' = <<>>
    /\ response' = NoResponse
    /\ qpc' = IF isValidUrl(q) THEN "url_fetch" ELSE "kb_embed"
    /\ UNCHANGED <<unitVars, startVars, ingestVars>>

(* handleUrlQuery 43-51 with processUrl 15-19 *)
UrlFetch ==
    /\ qpc = "url_fetch"
    /\ qlog' = Append(qlog, Event("fetch", scenario.fetch))
    /\ LET htmlContent == fetchUrlContent(scenario.fetch) IN
       IF htmlContent = None \/ htmlContent = Some("")
       THEN Respond(TryCatch(CouldNotProcess, UrlQueryError))
       ELSE qpc' = "url_structure" /\ UNCHANGED response
    /\ UNCHANGED <<unitVars, startVars, ingestVars, query, scenario, qArticle, qSources, qPrompt>>

(* handleUrlQuery 43-51 with processUrl 21-26 *)
UrlStructure ==
    /\ qpc = "url_structure"
    /\ LET a == cleanAndStructureHtml(scenario.structure, query) IN
       /\ qlog' = Append(qlog, Event("structure", IF a = None THEN "null" ELSE "ok"))
       /\ qArticle' = a
       /\ IF a = None
          THEN Respond(TryCatch(CouldNotProcess, UrlQueryError))
          ELSE qpc' = "url_embed" /\ UNCHANGED response
    /\ UNCHANGED <<unitVars, startVars, ingestVars, query, scenario, qSources, qPrompt>>

(* handleUrlQuery 43-67 with processUrl 28-39 *)
UrlEmbed ==
    /\ qpc = "url_embed"
    /\ LET v == generateEmbeddings(scenario.embed) IN
       /\ qlog' = Append(qlog, Event("embed", IF v = None THEN "throw" ELSE "ok"))
       /\ IF v = None
          THEN /\ Respond(TryCatch(CouldNotProcess, UrlQueryError))
               /\ UNCHANGED qPrompt
          ELSE /\ qpc' = "url_generate"
               /\ qPrompt' = UrlPrompt(Get(qArticle))
               /\ UNCHANGED response
       /\ index' = IF v = None THEN index
                   ELSE IndexAfterProcessUrl(index, Get(qArticle), Get(v))
    /\ UNCHANGED <<unitVars, startVars, overlap, recentlyProcessedUrls, pc, url, article, vector,
                   retryCount, lastError, raised, outcome, log, handled,
                   windowWork, okInWindow, dupOfOk, presentAtCall, writes,
                   query, scenario, qArticle, qSources>>

(* handleUrlQuery 69-98 *)
UrlGenerate ==
    /\ qpc = "url_generate"
    /\ LET answer == generateText(scenario.generate) IN
       /\ qlog' = Append(qlog, Event("generate", IF answer = None THEN "throw" ELSE "ok"))
       /\ Respond(TryCatch(IF answer = None THEN Throw
                           ELSE Return(Get(answer), <<cleanedSource(Get(qArticle))>>),
                           UrlQueryError))
    /\ UNCHANGED <<unitVars, startVars, ingestVars, query, scenario, qArticle, qSources, qPrompt>>

(* handleKnowledgeBaseQuery 106-117 *)
KbEmbed ==
    /\ qpc = "kb_embed"
    /\ LET v == generateEmbeddings(scenario.embed) IN
       /\ qlog' = Append(qlog, Event("embed", IF v = None THEN "throw" ELSE "ok"))
       /\ IF v = None
          THEN Respond(TryCatch(EmbeddingError, KnowledgeBaseError))
          ELSE qpc' = "kb_search" /\ UNCHANGED response
    /\ UNCHANGED <<unitVars, startVars, ingestVars, query, scenario, qArticle, qSources, qPrompt>>

(* handleKnowledgeBaseQuery 119-166 *)
KbSearch ==
    /\ qpc = "kb_search"
    /\ LET sources == querySimilarVectors(scenario.search) IN
       /\ qlog' = Append(qlog, Event("search", IF sources = None THEN "throw" ELSE "ok"))
       /\ IF sources = None
          THEN /\ Respond(TryCatch(SearchError, KnowledgeBaseError))
               /\ UNCHANGED <<qSources, qPrompt>>
          ELSE IF Len(Get(sources)) = 0
          THEN /\ Respond(TryCatch(NoInformation, KnowledgeBaseError))
               /\ UNCHANGED <<qSources, qPrompt>>
          ELSE /\ qSources' = Get(sources)
               /\ qPrompt' = KnowledgePrompt(query, Get(sources))
               /\ qpc' = "kb_generate"
               /\ UNCHANGED response
    /\ UNCHANGED <<unitVars, startVars, ingestVars, query, scenario, qArticle>>

(* handleKnowledgeBaseQuery 168-198 *)
KbGenerate ==
    /\ qpc = "kb_generate"
    /\ LET answer == generateText(scenario.generate) IN
       /\ qlog' = Append(qlog, Event("generate", IF answer = None THEN "throw" ELSE "ok"))
       /\ Respond(TryCatch(TryCatch(IF answer = None THEN Throw
                                    ELSE Return(Get(answer), cleanedSources(qSources)),
                                    Return(CouldNotGenerate, cleanedSources(qSources))),
                           KnowledgeBaseError))
    /\ UNCHANGED <<unitVars, startVars, ingestVars, query, scenario, qArticle, qSources, qPrompt>>

Next ==
    \/ \E w \in Handlers, p \in Payloads : Receive(w, p)
    \/ \E w \in Handlers, o \in FetchOutcomes : Fetch(w, o)
    \/ \E w \in Handlers, resp \in StructureResponses : Structure(w, resp)
    \/ \E w \in Handlers, o \in EmbedOutcomes : Embed(w, o)
    \/ \E w \in Handlers, fetched \in {"ok", "error"} : Exists(w, fetched)
    \/ \E w \in Handlers : WriteOk(w)
    \/ \E w \in Handlers, err \in StoreErrors : WriteFail(w, err)
    \/ \E w \in Handlers : Backoff(w)
    \/ \E w \in Handlers : Complete(w)
    \/ \E w \in Handlers : Catch(w)
    \/ ExpiryTick

Spec == Init /\ [][Next]_vars

SpecConcurrent == InitConcurrent /\ [][Next]_vars

(* queries, against an index holding what ingestion can have stored *)
InitQuery ==
    /\ InitQueryVars
    /\ InitStarted
    /\ InitUnitsIdle
    /\ overlap = FALSE
    /\ recentlyProcessedUrls = {}
    /\ index \in [IndexIds -> {None} \cup {Some(r) : r \in UNION {StoredRecords(id) : id \in IndexIds}}]
    /\ \A id \in IndexIds : index[id] # None => Get(index[id]).id = id
    /\ pc = [w \in Handlers |-> "idle"]
    /\ url = [w \in Handlers |-> EmptyStr]
    /\ article = [w \in Handlers |-> None]
    /\ vector = [w \in Handlers |-> None]
    /\ retryCount = [w \in Handlers |-> 0]
    /\ lastError = [w \in Handlers |-> "null"]
    /\ raised = [w \in Handlers |-> EmptyStr]
    /\ outcome = [w \in Handlers |-> "none"]
    /\ log = [w \in Handlers |-> <<>>]
    /\ handled = 0
    /\ windowWork = [u \in IndexIds |-> 0]
    /\ okInWindow = {}
    /\ dupOfOk = [w \in Handlers |-> FALSE]
    /\ presentAtCall = [w \in Handlers |-> FALSE]
    /\ writes = [id \in IndexIds |-> IF index[id] = None THEN 0 ELSE 1]

(* routes.ts 30-32: the response is sent, the request is over *)
QueryReturn ==
    /\ qpc = "responded"
    /\ qpc' = "idle"
    /\ query' = EmptyStr
    /\ scenario' = NoScenario
    /\ qArticle' = None
    /\ qSources' = <<>>
    /\ qPrompt' = NoPrompt
    /\ qlog' = <<>>
    /\ response' = NoResponse
    /\ UNCHANGED <<unitVars, startVars, ingestVars>>

NextQuery ==
    \/ qpc = "idle" /\ \E q \in Queries, sc \in Scenarios : QueryStart(q, sc)
    \/ UrlFetch
    \/ UrlStructure
    \/ UrlEmbed
    \/ UrlGenerate
    \/ KbEmbed
    \/ KbSearch
    \/ KbGenerate
    \/ QueryReturn

SpecQuery == InitQuery /\ [][NextQuery]_vars

-----------------------------------------------------------------------------
(* Startup: main (index.ts) with initializePinecone (pineconeService.ts)   *)
(* and startKafkaConsumer (kafkaConsumer.ts)                               *)

IndexDimensions == {EMBEDDING_DIMENSION, 1536}

IndexStates == {None} \cup {Some(x) : x \in [ready : BOOLEAN, dimension : IndexDimensions]}

(* what describeIndex can answer about the index's status *)
PollResults == {"ready", "pending", "error"}

(* a poll that takes any answer of describeIndex for a ready index *)
IndexStatusCheck_AnyAnswer(answer) ==
    CASE answer = "error" -> "reject"
      [] OTHER -> "resolve"

(* the timer callback of the wait, pineconeService.ts 53-65: what it does *)
(* with the promise once describeIndex has settled                        *)
IndexStatusCheck(answer) ==
    CASE answer = "ready" -> "resolve"
      [] answer = "error" -> "reject"
      [] OTHER -> "keep"

(* pineconeService.ts 64 *)
StatusCheckFailure(err) == Wrap("Failed to check index status", <<err>>)

(* initializePinecone's catch, pineconeService.ts 80-83 *)
InitializationFailure(message) == Wrap("Failed to initialize Pinecone", message)

(* main after initializePinecone returned, index.ts 25-38 *)
AfterInitialization == IF enableKafka THEN "connect" ELSE "startServer"

(* process.exit(1), index.ts 19-23 and 45-48 *)
Exit(message) ==
    /\ mainPc' = "exited"
    /\ exitCode' = Some(1)
    /\ startupError' = message
    /\ checkInterval' = FALSE
    /\ inFlight' = 0
    /\ consumerRunning' = FALSE
    /\ serverListening' = FALSE

InitStartup ==
    /\ InitCommon
    /\ InitQueryVars
    /\ overlap = FALSE
    /\ mainPc = "main"
    /\ pineconeClient = FALSE
    /\ remoteIndex \in IndexStates
    /\ enableKafka \in BOOLEAN
    /\ checkInterval = FALSE
    /\ inFlight = 0
    /\ pollAnswers = {}
    /\ indexCreated = FALSE
    /\ pineconeInitialized = FALSE
    /\ dimensionWarned = FALSE
    /\ consumerRunning = FALSE
    /\ serverListening = FALSE
    /\ exitCode = None
    /\ startupError = EmptyStr
    /\ consumerFailed = FALSE
    /\ storeCalls = {}
    /\ InitUnitsIdle

(* main, index.ts 9-18, and initializePinecone 14-30 up to listIndexes *)
Begin ==
    /\ mainPc = "main"
    /\ pineconeClient' = TRUE
    /\ mainPc' = "listIndexes"
    /\ UNCHANGED <<unitVars, ingestVars, queryVars, consumerFailed, storeCalls,
                   remoteIndex, enableKafka, checkInterval, inFlight,
                   pollAnswers, indexCreated, pineconeInitialized, dimensionWarned,
                   consumerRunning, serverListening, exitCode, startupError>>

(* initializePinecone 30-36: listIndexes settled *)
ListIndexes(res) ==
    /\ mainPc = "listIndexes"
    /\ IF res \in StoreErrors
       THEN Exit(InitializationFailure(<<res>>))
       ELSE /\ LET indexExists == remoteIndex # None IN
               mainPc' = IF ~indexExists THEN "createIndex" ELSE "describeIndex"
            /\ UNCHANGED <<checkInterval, inFlight, consumerRunning, serverListening,
                           exitCode, startupError>>
    /\ UNCHANGED <<unitVars, ingestVars, queryVars, consumerFailed, storeCalls,
                   pineconeClient, remoteIndex, enableKafka,
                   pollAnswers, indexCreated, pineconeInitialized, dimensionWarned>>

(* initializePinecone 36-66: createIndex settled; on success the timer is armed *)
CreateIndex(res) ==
    /\ mainPc = "createIndex"
    /\ IF res \in StoreErrors
       THEN /\ Exit(InitializationFailure(<<res>>))
            /\ UNCHANGED <<remoteIndex, indexCreated>>
       ELSE /\ remoteIndex' = Some([ready |-> FALSE, dimension |-> EMBEDDING_DIMENSION])
            /\ indexCreated' = TRUE
            /\ checkInterval' = TRUE
            /\ mainPc' = "waiting"
            /\ UNCHANGED <<inFlight, consumerRunning, serverListening, exitCode, startupError>>
    /\ UNCHANGED <<unitVars, ingestVars, queryVars, consumerFailed, storeCalls,
                   pineconeClient, enableKafka,
                   pollAnswers, pineconeInitialized, dimensionWarned>>

(* Pinecone finishes building the index *)
IndexBecomesReady ==
    /\ remoteIndex # None
    /\ ~Get(remoteIndex).ready
    /\ remoteIndex' = Some([Get(remoteIndex) EXCEPT !.ready = TRUE])
    /\ UNCHANGED <<unitVars, ingestVars, queryVars, consumerFailed, storeCalls,
                   mainPc, pineconeClient, enableKafka, checkInterval,
                   inFlight, pollAnswers, indexCreated, pineconeInitialized, dimensionWarned,
                   consumerRunning, serverListening, exitCode, startupError>>

(* pineconeService.ts 53-55, 66: the 5 s timer fires and calls describeIndex *)
PollTick ==
    /\ checkInterval
    /\ inFlight < MaxInFlight
    /\ inFlight' = inFlight + 1
    /\ UNCHANGED <<unitVars, ingestVars, queryVars, consumerFailed, storeCalls,
                   mainPc, pineconeClient, remoteIndex, enableKafka,
                   checkInterval, pollAnswers, indexCreated, pineconeInitialized,
                   dimensionWarned, consumerRunning, serverListening, exitCode, startupError>>

(* pineconeService.ts 55-65: a describeIndex call of the poll settled; then    *)
(* initializePinecone 79 and main 19-38 when the promise is resolved, or the   *)
(* catches 80-83 and main 20-24 when it is rejected. resolve and reject of a   *)
(* settled promise do nothing.                                                 *)
PollAnswer(answer, err) ==
    /\ inFlight > 0
    /\ answer = "ready" => Get(remoteIndex).ready
    /\ answer = "pending" => ~Get(remoteIndex).ready
    /\ pollAnswers' = pollAnswers \cup {answer}
    /\ LET settle == IndexStatusCheck(answer) IN
       CASE settle = "resolve" /\ mainPc = "waiting" ->
               /\ checkInterval' = FALSE
               /\ inFlight' = inFlight - 1
               /\ pineconeInitialized' = TRUE
               /\ mainPc' = AfterInitialization
               /\ UNCHANGED <<consumerRunning, serverListening, exitCode, startupError>>
         [] settle = "reject" /\ mainPc = "waiting" ->
               /\ Exit(InitializationFailure(StatusCheckFailure(err)))
               /\ UNCHANGED pineconeInitialized
         [] OTHER ->
               /\ checkInterval' = (checkInterval /\ settle = "keep")
               /\ inFlight' = inFlight - 1
               /\ UNCHANGED <<mainPc, pineconeInitialized, consumerRunning, serverListening,
                              exitCode, startupError>>
    /\ UNCHANGED <<unitVars, ingestVars, queryVars, consumerFailed, storeCalls,
                   pineconeClient, remoteIndex, enableKafka,
                   indexCreated, dimensionWarned>>

(* initializePinecone 67-79: the index exists; describeIndex settled *)
DescribeIndex(res) ==
    /\ mainPc = "describeIndex"
    /\ IF res \in StoreErrors
       THEN /\ Exit(InitializationFailure(<<res>>))
            /\ UNCHANGED <<dimensionWarned, pineconeInitialized>>
       ELSE /\ LET indexDimension == Get(remoteIndex).dimension IN
               dimensionWarned' = (indexDimension # EMBEDDING_DIMENSION)
            /\ pineconeInitialized' = TRUE
            /\ mainPc' = AfterInitialization
            /\ UNCHANGED <<checkInterval, inFlight, consumerRunning, serverListening,
                           exitCode, startupError>>
    /\ UNCHANGED <<unitVars, ingestVars, queryVars, consumerFailed, storeCalls,
                   pineconeClient, remoteIndex, enableKafka,
                   pollAnswers, indexCreated>>

(* a main whose catch around startKafkaConsumer ends the process *)
AfterKafkaFailure_Exits == "exited"

(* main's catch around startKafkaConsumer, index.ts 33-40: the error is *)
(* logged and main goes on to the server                                *)
AfterKafkaFailure == "startServer"

(* startKafkaConsumer, kafkaConsumer.ts 66-85: connect, subscribe and run in  *)
(* turn; a failure of any is thrown and main logs it, index.ts 28-35          *)
KafkaStep(ok) ==
    /\ mainPc \in {"connect", "subscribe", "run"}
    /\ mainPc' = IF ~ok THEN AfterKafkaFailure
                 ELSE CASE mainPc = "connect" -> "subscribe"
                        [] mainPc = "subscribe" -> "run"
                        [] OTHER -> "startServer"
    /\ consumerRunning' = (ok /\ mainPc = "run")
    /\ consumerFailed' = ~ok
    /\ UNCHANGED <<unitVars, ingestVars, queryVars, storeCalls,
                   pineconeClient, remoteIndex, enableKafka,
                   checkInterval, inFlight, pollAnswers, indexCreated, pineconeInitialized,
                   dimensionWarned, serverListening, exitCode, startupError>>

(* main, index.ts 40-50 *)
StartServer(ok) ==
    /\ mainPc = "startServer"
    /\ IF ok
       THEN /\ serverListening' = TRUE
            /\ mainPc' = "up"
            /\ UNCHANGED <<checkInterval, inFlight, consumerRunning, exitCode, startupError>>
       ELSE Exit(startupError)
    /\ UNCHANGED <<unitVars, ingestVars, queryVars, consumerFailed, storeCalls,
                   pineconeClient, remoteIndex, enableKafka,
                   pollAnswers, indexCreated, pineconeInitialized, dimensionWarned>>

(* the functions of pineconeService.ts that use the client *)
StoreOperations == {"vectorExists", "upsertVector", "querySimilarVectors"}

(* the test each of them opens with, pineconeService.ts 87-89, 107-109, 163-165 *)
ClientGuard(client) == IF client THEN "call" ELSE "throw"

(* a call of one of them, with what the client and the startup were at the call *)
StoreCall(op) ==
    [op |-> op, guard |-> ClientGuard(pineconeClient), initialized |-> pineconeInitialized]

(* the running consumer hands a message to handleKafkaMessage and its       *)
(* ingestion reaches upsertVector, kafkaConsumer.ts 78-80 and               *)
(* ingestionService.ts 27; upsertVector calls vectorExists once its own     *)
(* test passed, pineconeService.ts 106-115                                  *)
DeliverMessage ==
    /\ consumerRunning
    /\ storeCalls' = storeCalls \cup {StoreCall("upsertVector")}
                        \cup (IF pineconeClient THEN {StoreCall("vectorExists")} ELSE {})
    /\ UNCHANGED <<unitVars, ingestVars, queryVars, mainPc, pineconeClient, remoteIndex,
                   enableKafka, checkInterval, inFlight, pollAnswers, indexCreated,
                   pineconeInitialized, dimensionWarned, consumerRunning, serverListening,
                   exitCode, startupError, consumerFailed>>

(* the listening server takes a query that is answered from the index, *)
(* server.ts 49-58 and ragService.ts: querySimilarVectors is called    *)
ServeQuery ==
    /\ serverListening
    /\ storeCalls' = storeCalls \cup {StoreCall("querySimilarVectors")}
    /\ UNCHANGED <<unitVars, ingestVars, queryVars, mainPc, pineconeClient, remoteIndex,
                   enableKafka, checkInterval, inFlight, pollAnswers, indexCreated,
                   pineconeInitialized, dimensionWarned, consumerRunning, serverListening,
                   exitCode, startupError, consumerFailed>>

NextStartup ==
    \/ Begin
    \/ \E res \in {"ok"} \cup StoreErrors : ListIndexes(res)
    \/ \E res \in {"ok"} \cup StoreErrors : CreateIndex(res)
    \/ IndexBecomesReady
    \/ PollTick
    \/ \E answer \in PollResults, err \in StoreErrors : PollAnswer(answer, err)
    \/ \E res \in {"ok"} \cup StoreErrors : DescribeIndex(res)
    \/ \E ok \in BOOLEAN : KafkaStep(ok)
    \/ \E ok \in BOOLEAN : StartServer(ok)
    \/ DeliverMessage
    \/ ServeQuery

SpecStartup == InitStartup /\ [][NextStartup]_vars

(* the timer fires every 5 s while it is armed, and every describeIndex call *)
(* of the poll settles                                                       *)
SpecStartupFair ==
    /\ InitStartup
    /\ [][NextStartup]_vars
    /\ WF_vars(PollTick)
    /\ WF_vars(\E answer \in PollResults, err \in StoreErrors : PollAnswer(answer, err))

-----------------------------------------------------------------------------
(* Extraction on its own: cleanAndStructureHtml over the responses the *)
(* structuring capability can give                                     *)

ArticleFields == {"title", "content", "date"}

(* the texts a field of the response can hold *)
FieldTexts(f) ==
    CASE f = "title" -> {"", "A"}
      [] f = "content" -> {"", "B"}
      [] OTHER -> {"", "2024-01-01", "March 3, 2024"}

JsonObjects ==
    UNION { {j \in [D -> UNION {FieldTexts(f) : f \in ArticleFields}] :
                \A f \in D : j[f] \in FieldTexts(f)} : D \in SUBSET ArticleFields }

ExtractResponses ==
    {[kind |-> k, json |-> NoFields] : k \in {"throw", "empty", "garbage", "null", "array"}}
    \cup {[kind |-> "json", json |-> j] : j \in JsonObjects}

InitExtract ==
    /\ InitCommon
    /\ InitQueryVars
    /\ InitStarted
    /\ overlap = FALSE
    /\ InitTextIdle
    /\ InitMessageIdle
    /\ InitRouteIdle
    /\ extractPc = "called"
    /\ responseText \in ExtractResponses
    /\ extractUrl \in IndexIds
    /\ extracted = None

(* cleanAndStructureHtml, contentProcessor.ts 155-203: the call settled *)
Extract ==
    /\ extractPc = "called"
    /\ extracted' = cleanAndStructureHtml(responseText, extractUrl)
    /\ extractPc' = "returned"
    /\ UNCHANGED <<ingestVars, queryVars, startVars, textVars, messageVars, routeVars,
                   responseText, extractUrl>>

NextExtract == Extract

SpecExtract == InitExtract /\ [][NextExtract]_vars

-----------------------------------------------------------------------------
(* The embedding text on its own: processUrl builds it, generateEmbeddings *)
(* truncates it. Texts are sequences of character codes.                   *)

TitleText(n) == [i \in 1..n |-> 64 + i]

ContentText(n) == [i \in 1..n |-> 96 + i]

(* ". " *)
Separator == <<46, 32>>

(* s.substring(0, n) *)
substring(s, n) == SubSeq(s, 1, IF n < Len(s) THEN n ELSE Len(s))

(* processUrl, contentProcessor.ts 29 *)
ContentForEmbedding(a) ==
    a.title \o Separator \o substring(a.content, CONTENT_PREFIX_LENGTH)

(* an embedding call that submits the text as it comes *)
TruncatedText_Whole(text) == text

(* generateEmbeddings, contentProcessor.ts 209-213 *)
TruncatedText(text) ==
    IF Len(text) > MAX_EMBED_TEXT_LENGTH THEN substring(text, MAX_EMBED_TEXT_LENGTH) ELSE text

InitText ==
    /\ InitCommon
    /\ InitQueryVars
    /\ InitStarted
    /\ overlap = FALSE
    /\ InitExtractIdle
    /\ InitMessageIdle
    /\ InitRouteIdle
    /\ textPc = "article"
    /\ textArticle \in {[title |-> TitleText(n), content |-> ContentText(m)] :
                           n \in 1..MaxTitleLen, m \in 0..MaxContentLen}
    /\ contentForEmbedding = None
    /\ truncatedText = None

(* processUrl, contentProcessor.ts 28-30, up to the call of generateEmbeddings *)
BuildEmbeddingText ==
    /\ textPc = "article"
    /\ contentForEmbedding' = Some(ContentForEmbedding(textArticle))
    /\ textPc' = "built"
    /\ UNCHANGED <<ingestVars, queryVars, startVars, extractVars, messageVars, routeVars,
                   textArticle, truncatedText>>

(* generateEmbeddings, contentProcessor.ts 207-217, up to embedContent(truncatedText) *)
SubmitForEmbedding ==
    /\ textPc = "built"
    /\ truncatedText' = Some(TruncatedText(Get(contentForEmbedding)))
    /\ textPc' = "submitted"
    /\ UNCHANGED <<ingestVars, queryVars, startVars, extractVars, messageVars, routeVars,
                   textArticle, contentForEmbedding>>

NextText ==
    \/ BuildEmbeddingText
    \/ SubmitForEmbedding

SpecText == InitText /\ [][NextText]_vars

-----------------------------------------------------------------------------
(* The parsing of a message on its own: handleKafkaMessage from the      *)
(* delivery of a message to the url it hands to handleUrlIngestion, over *)
(* the payloads a producer can send                                      *)

(* a url field of a payload: absent (None), or present with a text, maybe empty *)
UrlFieldValues == {None} \cup {Some(v) : v \in {EmptyStr, UrlA, UrlB, FtpUrl}}

RawTexts == {UrlA, UrlB, FtpUrl, PlainText, <<"42">>, <<"null">>}

(* what a producer sends: no payload, a text that is no JSON object, or a *)
(* JSON object with or without .value.url, .url and another field         *)
MessageShapes ==
    {[value |-> FALSE]}
    \cup {[value |-> TRUE, object |-> FALSE, text |-> t] : t \in RawTexts}
    \cup {[value |-> TRUE, object |-> TRUE, valueUrl |-> v, url |-> u, id |-> i] :
             v \in UrlFieldValues, u \in UrlFieldValues, i \in BOOLEAN}

RECURSIVE JsonJoin(_)
JsonJoin(members) ==
    IF members = <<>> THEN <<>>
    ELSE <<members[1].field>> \o members[1].value
            \o (IF Len(members) > 1 THEN <<",">> \o JsonJoin(Tail(members)) ELSE <<>>)

(* JSON.stringify of the object of a shape *)
JsonObjectText(shape) ==
    <<"{">>
    \o JsonJoin((IF shape.valueUrl = None THEN <<>>
                 ELSE <<[field |-> "value.url", value |-> Get(shape.valueUrl)]>>)
                \o (IF shape.url = None THEN <<>>
                    ELSE <<[field |-> "url", value |-> Get(shape.url)]>>)
                \o (IF shape.id THEN <<[field |-> "id", value |-> <<"7">>]>> ELSE <<>>))
    \o <<"}">>

(* message.value of a shape *)
MessageValue(shape) ==
    IF ~shape.value THEN None
    ELSE IF shape.object THEN Some(JsonObjectText(shape))
    ELSE Some(shape.text)

InitMessage ==
    /\ InitCommon
    /\ InitQueryVars
    /\ InitStarted
    /\ overlap = FALSE
    /\ InitTextIdle
    /\ InitExtractIdle
    /\ InitRouteIdle
    /\ messagePc = "delivered"
    /\ messageShape \in MessageShapes
    /\ messageValue = MessageValue(messageShape)
    /\ handedUrl = None

(* handleKafkaMessage, kafkaConsumer.ts 93-130, with an empty cache *)
ParseMessage ==
    /\ messagePc = "delivered"
    /\ IF messageValue = None
       THEN /\ messagePc' = "skipped"
            /\ UNCHANGED handedUrl
       ELSE /\ messagePc' = "handed"
            /\ handedUrl' = Some(MessageUrl(Get(messageValue)))
    /\ UNCHANGED <<ingestVars, queryVars, startVars, textVars, extractVars, routeVars,
                   messageShape, messageValue>>

NextMessage == ParseMessage

SpecMessage == InitMessage /\ [][NextMessage]_vars

-----------------------------------------------------------------------------
(* POST /agent (routes.ts): the validating middleware and the handler.   *)
(* body.query is a value with its type; the value of a string is its     *)
(* tokens, a blank being a token of its own.                             *)

Whitespace == {" "}

Pads == {<<>>, <<" ">>, <<" ", " ">>}

QueryCores == {<<>>, UrlA, FtpUrl, PlainText, <<"what", " ", "happened">>}

QueryValues ==
    { [type |-> "undefined", value |-> <<>>],
      [type |-> "number", value |-> <<"0">>],
      [type |-> "number", value |-> <<"42">>],
      [type |-> "object", value |-> <<"{}">>] }
    \cup {[type |-> "string", value |-> l \o c \o r] : l \in Pads, c \in QueryCores, r \in Pads}

RECURSIVE trimStart(_)
trimStart(s) ==
    IF s # <<>> /\ s[1] \in Whitespace THEN trimStart(Tail(s)) ELSE s

RECURSIVE trimEnd(_)
trimEnd(s) ==
    IF s # <<>> /\ s[Len(s)] \in Whitespace THEN trimEnd(SubSeq(s, 1, Len(s) - 1)) ELSE s

(* a trim that leaves the end of the string as it is *)
trim_StartOnly(s) == trimStart(s)

(* String.prototype.trim *)
trim(s) == trimEnd(trimStart(s))

(* !query *)
Falsy(q) ==
    \/ q.type = "undefined"
    \/ q.type = "number" /\ q.value = <<"0">>
    \/ q.type = "string" /\ q.value = <<>>

(* validateQueryPayload's test, routes.ts 11 *)
InvalidQuery(q) ==
    Falsy(q) \/ q.type # "string" \/ trim(q.value) = <<>>

InitRoute ==
    /\ InitCommon
    /\ InitQueryVars
    /\ InitStarted
    /\ overlap = FALSE
    /\ InitTextIdle
    /\ InitExtractIdle
    /\ InitMessageIdle
    /\ routePc = "received"
    /\ reqQuery \in QueryValues
    /\ bodyQuery = reqQuery
    /\ httpStatus = None
    /\ handleQueryArg = None

(* validateQueryPayload, routes.ts 8-22 *)
ValidateQueryPayload ==
    /\ routePc = "received"
    /\ IF InvalidQuery(bodyQuery)
       THEN /\ httpStatus' = Some(400)
            /\ routePc' = "responded"
            /\ UNCHANGED bodyQuery
       ELSE /\ bodyQuery' = [type |-> "string", value |-> trim(bodyQuery.value)]
            /\ routePc' = "handler"
            /\ UNCHANGED httpStatus
    /\ UNCHANGED <<ingestVars, queryVars, startVars, textVars, extractVars, messageVars,
                   reqQuery, handleQueryArg>>

(* router.post('/agent'), routes.ts 25-30: handleQuery is called *)
CallHandleQuery ==
    /\ routePc = "handler"
    /\ handleQueryArg' = Some(bodyQuery.value)
    /\ routePc' = "handleQuery"
    /\ UNCHANGED <<ingestVars, queryVars, startVars, textVars, extractVars, messageVars,
                   reqQuery, bodyQuery, httpStatus>>

(* router.post('/agent'), routes.ts 30-38: handleQuery returned or threw *)
SendResponse(returned) ==
    /\ routePc = "handleQuery"
    /\ httpStatus' = Some(IF returned THEN 200 ELSE 500)
    /\ routePc' = "responded"
    /\ UNCHANGED <<ingestVars, queryVars, startVars, textVars, extractVars, messageVars,
                   reqQuery, bodyQuery, handleQueryArg>>

NextRoute ==
    \/ ValidateQueryPayload
    \/ CallHandleQuery
    \/ \E returned \in BOOLEAN : SendResponse(returned)

SpecRoute == InitRoute /\ [][NextRoute]_vars

-----------------------------------------------------------------------------
(* Claims about ingestion *)

Range(q) == {q[i] : i \in DOMAIN q}

(* C1 (as stated): between two expiry clears, at most one handling of a  *)
(* url gets as far as fetching it; every other one is a skip.             *)
C1_WorkAtMostOncePerWindow ==
    \A u \in IndexIds : windowWork[u] <= 1

(* C1 (amended): a message whose url was handled before, with ingestion     *)
(* returning normally and no clear of the cache since (neither the expiry   *)
(* timer nor the size cap), is skipped without any capability call.         *)
C1_SkipAfterNormalReturn ==
    \A w \in Handlers :
        dupOfOk[w] => pc[w] = "done" /\ outcome[w] = "skip" /\ log[w] = <<>>

C1_Witness ==
    \E w \in Handlers :
        dupOfOk[w] /\ outcome[w] = "skip" /\ url[w] \in IndexIds /\ index[url[w]] # None

(* C2 (as stated): an upsert entered while its id is stored never attempts *)
(* a write and never throws, whatever the lookup answers.                  *)
C2_StoredIdNeverWritten ==
    \A w \in Handlers :
        presentAtCall[w] =>
            /\ pc[w] \notin {"write", "backoff", "raised"}
            /\ Logged(w, "write") = {}

(* C2 (amended): an upsert entered while its id is stored, and whose lookup *)
(* did not error, attempts no write, leaves the record as it is and returns *)
(* normally.                                                                *)
C2_StoredIdSkippedWhenLookupAnswers ==
    \A w \in Handlers :
        (presentAtCall[w] /\ LoggedAs(w, "exists", "error") = {}) =>
            /\ pc[w] \in {"exists", "returned"}
            /\ Logged(w, "write") = {}
            /\ index[url[w]] # None

C2_Witness ==
    \E w \in Handlers :
        /\ presentAtCall[w]
        /\ LoggedAs(w, "exists", "true") # {}
        /\ pc[w] = "returned"

(* C3: a record is written at most once per id, also when ingestions of *)
(* the same url overlap.                                                *)
C3_WrittenAtMostOnce ==
    \A id \in IndexIds : writes[id] <= 1

(* C6: when the first two index.upsert calls fail and the third succeeds, *)
(* upsert returns normally and the index holds the record as given.       *)
C6_ThirdAttemptSucceeds ==
    \A w \in Handlers :
        LET a == Attempts(log[w]) IN
        (Len(a) = 3 /\ a[1] \in StoreErrors /\ a[2] \in StoreErrors /\ a[3] = "ok") =>
            /\ pc[w] = "returned"
            /\ index[url[w]] = Some([id |-> url[w],
                                     values |-> Get(vector[w]),
                                     metadata |-> Get(article[w])])

C6_Witness ==
    \E w \in Handlers :
        /\ Attempts(log[w]) = <<"503", "ECONNRESET", "ok">>
        /\ pc[w] = "returned"
        /\ Get(article[w]).content = "B"

(* C7: no upsert makes more than 3 index.upsert calls; one whose calls all *)
(* fail makes exactly 3 and throws, the message ending with the third      *)
(* call's error.                                                           *)
C7_ThreeAttemptsThenThrow ==
    \A w \in Handlers :
        LET a == Attempts(log[w]) IN
        /\ Len(a) <= 3
        /\ pc[w] = "raised" =>
              /\ Len(a) = 3
              /\ \A i \in 1..3 : a[i] \in StoreErrors
              /\ Len(raised[w]) >= 2
              /\ SubSeq(raised[w], Len(raised[w]) - 1, Len(raised[w]))
                    = <<"Failed to upsert vector to Pinecone", a[3]>>
        /\ (Len(a) = 3 /\ a[3] \in StoreErrors) => pc[w] = "raised"

C7_Witness ==
    \E w \in Handlers :
        /\ pc[w] = "raised"
        /\ Attempts(log[w]) = <<"503", "503", "ECONNRESET">>

(* C8: a failed embedding call, after a successful extraction, makes *)
(* handleUrlIngestion throw.                                         *)
C8_EmbeddingFailureRaises ==
    \A w \in Handlers :
        LoggedAs(w, "embed", "throw") # {} => pc[w] = "raised"

(* C9: when upsert has given up, the error handleUrlIngestion throws names *)
(* the storage stage and ends with the store's own error message.          *)
C9_StorageFailureLabelled ==
    \A w \in Handlers :
        (pc[w] = "raised" /\ Len(Attempts(log[w])) = 3) =>
            /\ "Vector storage failed" \in Range(raised[w])
            /\ Last(raised[w]) = lastError[w]
            /\ Last(raised[w]) = Last(Attempts(log[w]))

C9_Witness ==
    \E w \in Handlers :
        /\ pc[w] = "raised"
        /\ raised[w] = <<"URL processing failed", "Vector storage failed",
                         "Failed to upsert vector to Pinecone", "503">>

(* C16: when index.fetch errors during the lookup, vectorExists answers   *)
(* false without throwing, so the upsert goes on to attempt the write,   *)
(* also when the id is in fact stored.                                   *)
C16_LookupErrorProceedsToWrite ==
    \A w \in Handlers :
        LoggedAs(w, "exists", "error") # {} =>
            /\ pc[w] \in {"write", "backoff", "returned", "raised"}
            /\ pc[w] = "write" \/ Logged(w, "write") # {}
            /\ \A i \in Logged(w, "write") : \E j \in LoggedAs(w, "exists", "error") : j < i

C16_Witness ==
    \E w \in Handlers :
        /\ presentAtCall[w]
        /\ LoggedAs(w, "exists", "error") # {}
        /\ LoggedAs(w, "write", "ok") # {}
        /\ pc[w] = "returned"

(* C17: generateEmbeddings never gives its caller an empty vector, so no *)
(* empty vector reaches upsertVector.                                    *)
C17_NoEmptyVector ==
    \A w \in Handlers :
        (vector[w] # None /\ pc[w] \in {"exists", "write", "backoff", "returned", "raised"})
            => Get(vector[w]).length > 0

(* C18: handleUrlIngestion of a string that is not an http(s) url returns *)
(* normally and calls none of fetch, structuring, embedding, lookup and   *)
(* write.                                                                 *)
C18_InvalidUrlDoesNothing ==
    \A w \in Handlers :
        ( /\ pc[w] \notin {"idle", "done"}
          /\ ~(Len(url[w]) >= 2 /\ url[w][1] \in {"http:", "https:"}) )
        => /\ pc[w] = "returned"
           /\ log[w] = <<>>
           /\ article[w] = None
           /\ vector[w] = None

C18_Witness ==
    \E w \in Handlers :
        /\ pc[w] = "returned"
        /\ url[w] = FtpUrl
        /\ log[w] = <<>>
        /\ \E id \in IndexIds : index[id] # None

FailedWrites(l, i) ==
    Cardinality({j \in 1..i : l[j].op = "write" /\ l[j].res \in StoreErrors})

(* C19: in upsertVector the wait after the first failed index.upsert is   *)
(* 2 seconds and after the second 4 seconds; every wait follows a failed  *)
(* call, and no wait follows the third failed call.                       *)
C19_BackoffDelays ==
    \A w \in Handlers :
        LET l == log[w] IN
        /\ \A i \in DOMAIN l :
              l[i].op = "wait" =>
                 /\ i > 1
                 /\ l[i - 1].op = "write"
                 /\ l[i - 1].res \in StoreErrors
                 /\ FailedWrites(l, i) \in {1, 2}
                 /\ l[i].ms = (IF FailedWrites(l, i) = 1 THEN 2000 ELSE 4000)
        /\ \A i \in DOMAIN l :
              (l[i].op = "write" /\ l[i].res \in StoreErrors) =>
                 IF FailedWrites(l, i) < 3
                 THEN i < Len(l) /\ l[i + 1].op = "wait"
                 ELSE i = Len(l)

C19_Witness ==
    \E w \in Handlers :
        /\ pc[w] = "raised"
        /\ Attempts(log[w]) = <<"ECONNRESET", "ECONNRESET", "503">>
        /\ \E i, j \in DOMAIN log[w] :
              /\ i < j
              /\ log[w][i] = Wait(2000)
              /\ log[w][j] = Wait(4000)

(* C22: the dedup cache never holds more than MAX_CACHE_SIZE urls; every  *)
(* change of the cache either adds to it or empties it, so a clear (by    *)
(* the cap, with the url just inserted, or by the expiry timer) is never  *)
(* partial.                                                               *)
C22_CacheClearedWhole ==
    /\ [](Cardinality(recentlyProcessedUrls) <= MAX_CACHE_SIZE)
    /\ [][ \/ recentlyProcessedUrls' = {}
           \/ recentlyProcessedUrls \subseteq recentlyProcessedUrls' ]_vars
    /\ [][ \A w \in Handlers :
              ( /\ pc[w] = "returned" /\ pc'[w] = "done"
                /\ Cardinality(recentlyProcessedUrls \cup {url[w]}) > MAX_CACHE_SIZE )
              => recentlyProcessedUrls' = {} ]_vars

(* three messages were handled and returned, two of them fetched since the *)
(* last expiry, and the cache is empty: the cap has cleared it             *)
C22_Witness ==
    /\ handled = 3
    /\ pc[1] = "done"
    /\ outcome[1] = "ok"
    /\ windowWork[UrlA] = 1
    /\ windowWork[UrlB] = 1
    /\ index[UrlA] # None
    /\ index[UrlB] # None
    /\ recentlyProcessedUrls = {}

(* handler w takes a message with a payload in this step *)
Received(w) == handled' = handled + 1 /\ url[w] = EmptyStr /\ url'[w] # EmptyStr

(* C28: a url enters the cache exactly in the step in which its           *)
(* handleUrlIngestion has returned normally, stored or not; when it threw *)
(* the cache stays as it is. Until the cache is next cleared a message    *)
(* with a cached url is skipped without any call, and a message with a    *)
(* valid url that is not cached is ingested.                              *)
C28_CachedExactlyOnNormalReturn ==
    [][ /\ \A w \in Handlers :
              /\ (pc[w] = "returned" /\ pc'[w] = "done") =>
                    recentlyProcessedUrls' =
                        (IF Cardinality(recentlyProcessedUrls \cup {url[w]}) > MAX_CACHE_SIZE
                         THEN {} ELSE recentlyProcessedUrls \cup {url[w]})
              /\ (pc[w] = "raised" /\ pc'[w] = "done") =>
                    recentlyProcessedUrls' = recentlyProcessedUrls
              /\ (Received(w) /\ url'[w] \in recentlyProcessedUrls) =>
                    pc'[w] = "done" /\ outcome'[w] = "skip" /\ log'[w] = <<>>
              /\ ( /\ Received(w)
                   /\ url'[w] \notin recentlyProcessedUrls
                   /\ url'[w] \in {UrlA, UrlB} ) =>
                    pc'[w] = "fetch"
        /\ \A u \in recentlyProcessedUrls' \ recentlyProcessedUrls :
              \E w \in Handlers : pc[w] = "returned" /\ pc'[w] = "done" /\ url[w] = u
      ]_vars

(* a second message with an invalid url is skipped: the first was cached *)
(* although nothing was stored for it                                    *)
C28_Witness ==
    \E w \in Handlers :
        /\ outcome[w] = "skip"
        /\ url[w] = FtpUrl
        /\ FtpUrl \in recentlyProcessedUrls
        /\ \A id \in IndexIds : index[id] = None

(* C29: handleKafkaMessage never throws to the consumer: a handling whose *)
(* ingestion threw ends in the handler's catch, which logs and returns,   *)
(* and every handling ends as one of ok, skip, empty, error.              *)
C29_HandlerNeverRaises ==
    \A w \in Handlers :
        /\ outcome[w] \in {"none", "ok", "skip", "empty", "error"}
        /\ pc[w] = "raised" => ENABLED Catch(w)
        /\ pc[w] \notin {"idle", "done"} => outcome[w] = "none"

C29_Witness ==
    \E w \in Handlers :
        /\ pc[w] = "done"
        /\ outcome[w] = "error"
        /\ handled = 2
        /\ recentlyProcessedUrls = {}
        /\ \A id \in IndexIds : index[id] = None

(* C32: within one handleUrlIngestion, the lookup and the write come only *)
(* after the structuring gave an article and the embedding gave a vector *)
(* of EMBEDDING_DIMENSION values; and when the fetch or the structuring   *)
(* gave nothing, the embedding, the lookup and the write are not called   *)
(* and handleUrlIngestion returns normally.                               *)
C32_StoreOnlyAfterExtractionAndEmbedding ==
    \A w \in Handlers :
        LET touched == Logged(w, "exists") \cup Logged(w, "write")
            extractionNull ==
                \/ LoggedAs(w, "structure", "null") # {}
                \/ \E i \in Logged(w, "fetch") :
                       fetchUrlContent(log[w][i].res) \in {None, Some("")}
        IN  /\ \A i \in touched :
                  /\ \E j \in LoggedAs(w, "structure", "ok") : j < i
                  /\ \E j \in LoggedAs(w, "embed", "ok") : j < i
                  /\ article[w] # None
                  /\ vector[w] # None
                  /\ Get(vector[w]).length = EMBEDDING_DIMENSION
            /\ extractionNull =>
                  /\ Logged(w, "embed") = {}
                  /\ touched = {}
                  /\ vector[w] = None
                  /\ pc[w] = "returned"

-----------------------------------------------------------------------------
(* Claims about queries *)

IsList(x) == DOMAIN x = 1..Len(x)

(* C4: whatever fails, handleQuery ends by returning an object with a  *)
(* string answer and a list of sources; it never throws to its caller, *)
(* and a query under way can always take its next step.                *)
C4_QueryAlwaysAnswered ==
    /\ qpc = "responded" =>
          /\ response.kind = "return"
          /\ response.answer \in FixedAnswers \cup {GeneratedText}
          /\ IsList(response.sources)
    /\ qpc # "idle" => ENABLED NextQuery

C4_Witness ==
    /\ qpc = "responded"
    /\ response.kind = "return"
    /\ LoggedQ("generate", "throw")
    /\ isValidUrl(query)

(* C5: no source of a response has a content field; each has exactly *)
(* title, url and date.                                              *)
C5_SourcesWithoutContent ==
    qpc = "responded" =>
        \A i \in DOMAIN response.sources :
            DOMAIN response.sources[i] = {"title", "url", "date"}

C5_Witness ==
    /\ qpc = "responded"
    /\ ~isValidUrl(query)
    /\ Len(response.sources) = 1
    /\ response.answer = CouldNotGenerate
    /\ qSources[1].content = "B"

(* C10: in URL-mode, when the fetch and the structuring call yield an      *)
(* article and the text generation capability answers, the response is the *)
(* generated text with that article as its one source, whatever the        *)
(* embedding capability does.                                              *)
C10_UrlAnswerWhateverEmbeddingDoes ==
    LET html == fetchUrlContent(scenario.fetch)
        a == cleanAndStructureHtml(scenario.structure, query)
    IN  ( /\ qpc = "responded"
          /\ isValidUrl(query)
          /\ html # None /\ html # Some("")
          /\ a # None
          /\ scenario.generate = "ok" )
        => response = Return(GeneratedText,
                             <<[title |-> Get(a).title, url |-> query, date |-> Get(a).date]>>)

(* C11: in URL-mode, when the article was extracted and generateText      *)
(* throws, the response has a fixed fallback answer and still carries the *)
(* article as its source {title, url, date}.                              *)
C11_SourceKeptWhenGenerationFails ==
    ( /\ qpc = "responded"
      /\ isValidUrl(query)
      /\ qArticle # None
      /\ LoggedQ("generate", "throw") )
    => /\ response.kind = "return"
       /\ response.answer \in FixedAnswers
       /\ response.sources = <<[title |-> Get(qArticle).title,
                                url |-> query,
                                date |-> Get(qArticle).date]>>

(* C12: in knowledge-mode, when sources were retrieved and generateText    *)
(* throws, the response is the fixed "Couldn't generate" answer with the   *)
(* retrieved sources, each without its content, as many and in the order   *)
(* they were retrieved.                                                    *)
C12_SourcesKeptWhenGenerationFails ==
    ( /\ qpc = "responded"
      /\ ~isValidUrl(query)
      /\ Len(qSources) >= 1
      /\ LoggedQ("generate", "throw") )
    => /\ response.kind = "return"
       /\ response.answer = CouldNotGenerate
       /\ Len(response.sources) = Len(qSources)
       /\ \A i \in DOMAIN qSources :
             response.sources[i] = [title |-> qSources[i].title,
                                    url |-> qSources[i].url,
                                    date |-> qSources[i].date]

C12_Witness ==
    /\ qpc = "responded"
    /\ ~isValidUrl(query)
    /\ LoggedQ("generate", "throw")
    /\ Len(qSources) = 1
    /\ response.sources = <<[title |-> "Untitled Article", url |-> UrlB, date |-> ""]>>

(* C13: a URL-mode query whose url cannot be fetched (non-2xx status,      *)
(* network error, empty body) is answered with the fixed "couldn't process *)
(* this URL" answer and no sources, and generateText is never called.      *)
C13_UnfetchableUrlNeverGenerates ==
    ( /\ qpc # "idle"
      /\ isValidUrl(query)
      /\ scenario.fetch \in {"empty", "http_error", "network_error"} )
    => /\ qpc \in {"url_fetch", "responded"}
       /\ \A i \in DOMAIN qlog : qlog[i].op \in {"fetch"}
       /\ qpc = "responded" =>
             /\ response.kind = "return"
             /\ response.answer = "I couldn't process this URL. It may be inaccessible or doesn't contain extractable content."
             /\ response.sources = <<>>

C13_Witness ==
    /\ qpc = "responded"
    /\ query = UrlA
    /\ scenario.fetch = "http_error"
    /\ scenario.generate = "ok"
    /\ response = CouldNotProcess

(* C14: a knowledge-mode query whose similarity search finds no record is  *)
(* answered with the fixed "No information" answer and no sources, and     *)
(* generateText is never called.                                           *)
C14_NoSourcesNeverGenerates ==
    ( /\ qpc # "idle"
      /\ ~isValidUrl(query)
      /\ scenario.search = <<"none">>
      /\ \E i \in DOMAIN qlog : qlog[i].op = "search" )
    => /\ qpc = "responded"
       /\ \A i \in DOMAIN qlog : qlog[i].op # "generate"
       /\ response.kind = "return"
       /\ response.answer = "No information related to the query in our knowledge base."
       /\ response.sources = <<>>

C14_Witness ==
    /\ qpc = "responded"
    /\ query = PlainText
    /\ scenario.search = <<"none">>
    /\ scenario.generate = "ok"
    /\ LoggedQ("search", "ok")
    /\ response = NoInformation

C30_QueryLeavesStoreAndCache ==
    [][ /\ index' = index
        /\ writes' = writes
        /\ recentlyProcessedUrls' = recentlyProcessedUrls ]_vars

(* a URL-mode query answered with generated text about a url that is not stored *)
C30_Witness ==
    /\ qpc = "responded"
    /\ isValidUrl(query)
    /\ response.answer = GeneratedText
    /\ Len(response.sources) = 1
    /\ index[query] = None

-----------------------------------------------------------------------------
(* Claims about startup *)

(* C20: when the index was missing and initializePinecone created it,      *)
(* initializePinecone returns normally only after a status poll answered   *)
(* ready; and once the index is ready while initializePinecone waits, it   *)
(* eventually returns normally unless a status poll errors.                *)
C20_CreatedIndexAwaited ==
    /\ []((indexCreated /\ pineconeInitialized) => "ready" \in pollAnswers)
    /\ [](pineconeInitialized => mainPc \notin {"main", "listIndexes", "createIndex", "waiting"})
    /\ ((mainPc = "waiting" /\ Get(remoteIndex).ready)
           ~> (pineconeInitialized \/ "error" \in pollAnswers))

C20_Witness ==
    /\ indexCreated
    /\ pineconeInitialized
    /\ pollAnswers = {"pending", "ready"}
    /\ mainPc = "up"
    /\ exitCode = None

(* C21: a pre-existing index whose dimension is not EMBEDDING_DIMENSION    *)
(* stops the startup: initializePinecone does not return normally, and    *)
(* neither the consumer nor the server is started against it.             *)
C21_DimensionMismatchIsFatal ==
    (remoteIndex # None /\ Get(remoteIndex).dimension # EMBEDDING_DIMENSION) =>
        /\ ~pineconeInitialized
        /\ ~consumerRunning
        /\ ~serverListening

(* C31: main starts the consumer and the server only once                  *)
(* initializePinecone has returned normally, and a failure of             *)
(* initializePinecone ends the process with nothing started; hence every  *)
(* vectorExists, upsertVector and querySimilarVectors call finds the      *)
(* client set and the initialization complete. When startKafkaConsumer    *)
(* throws, main goes on to startServer, which can then succeed.           *)
C31_StartedOnlyAfterInitialization ==
    /\ []((\/ consumerRunning
           \/ serverListening
           \/ mainPc \in {"connect", "subscribe", "run", "startServer", "up"})
              => (pineconeInitialized /\ pineconeClient))
    /\ [](startupError # EmptyStr =>
              /\ mainPc = "exited"
              /\ exitCode = Some(1)
              /\ ~pineconeInitialized
              /\ ~consumerRunning
              /\ ~serverListening)
    /\ [](\A c \in storeCalls : c.guard = "call" /\ c.initialized)
    /\ [][(consumerFailed' /\ ~consumerFailed) =>
              (mainPc' = "startServer" /\ exitCode' = None)]_vars
    /\ []((consumerFailed /\ mainPc = "startServer") => ENABLED StartServer(TRUE))

C31_Witness ==
    /\ mainPc = "up"
    /\ enableKafka
    /\ consumerFailed
    /\ ~consumerRunning
    /\ serverListening
    /\ pineconeInitialized
    /\ [op |-> "querySimilarVectors", guard |-> "call", initialized |-> TRUE] \in storeCalls

-----------------------------------------------------------------------------
(* Claims about extraction *)

(* C24: cleanAndStructureHtml returns null whenever the response is not a  *)
(* JSON object; for a JSON object it returns an Article whose title is the *)
(* response's or a non-empty placeholder and whose content and date are    *)
(* the response's or empty, so no Article has an empty title.              *)
C24_NullUnlessJsonObject ==
    extractPc = "returned" =>
        /\ responseText.kind # "json" => extracted = None
        /\ responseText.kind = "json" =>
              /\ extracted # None
              /\ Get(extracted).title # ""
              /\ \A f \in {"content", "date"} :
                    f \notin DOMAIN responseText.json => Get(extracted)[f] = ""
        /\ extracted # None => Get(extracted).title # ""

(* the texts of the model that have the form YYYY-MM-DD *)
YearMonthDayTexts == {"2024-01-01"}

(* C25: the date of every Article cleanAndStructureHtml returns is empty *)
(* or of the form YYYY-MM-DD.                                            *)
C25_DateIsYearMonthDay ==
    (extractPc = "returned" /\ extracted # None) =>
        Get(extracted).date \in {""} \cup YearMonthDayTexts

-----------------------------------------------------------------------------
(* Claims about the embedding text *)

Min(a, b) == IF a < b THEN a ELSE b

(* C23 (as stated): the text submitted to the embedding capability is the *)
(* prefix of title + ". " + content of length min(its length,             *)
(* MAX_EMBED_TEXT_LENGTH).                                                *)
C23_PrefixOfTitleAndContent ==
    textPc = "submitted" =>
        LET full == textArticle.title \o <<46, 32>> \o textArticle.content
            t == Get(truncatedText)
        IN  /\ Len(t) = Min(Len(full), MAX_EMBED_TEXT_LENGTH)
            /\ \A i \in 1..Len(t) : t[i] = full[i]

(* C23 (amended): the text submitted is a prefix of title + ". " + content, *)
(* namely title + ". " + the first CONTENT_PREFIX_LENGTH characters of the  *)
(* content, cut at MAX_EMBED_TEXT_LENGTH; it is never longer than           *)
(* MAX_EMBED_TEXT_LENGTH, and the step that cuts it always completes.       *)
C23_PrefixOfTitleAndCutContent ==
    /\ textPc = "submitted" =>
          LET full == textArticle.title \o <<46, 32>> \o textArticle.content
              t == Get(truncatedText)
          IN  /\ Len(t) = Min(Len(textArticle.title) + 2
                                + Min(Len(textArticle.content), CONTENT_PREFIX_LENGTH),
                              MAX_EMBED_TEXT_LENGTH)
              /\ Len(t) <= MAX_EMBED_TEXT_LENGTH
              /\ \A i \in 1..Len(t) : t[i] = full[i]
    /\ textPc = "built" => ENABLED SubmitForEmbedding

(* a content longer than the content cut, and a text longer than the cap *)
C23_Witness ==
    /\ textPc = "submitted"
    /\ Len(textArticle.content) > CONTENT_PREFIX_LENGTH
    /\ Len(Get(contentForEmbedding)) > MAX_EMBED_TEXT_LENGTH
    /\ Len(Get(truncatedText)) = MAX_EMBED_TEXT_LENGTH

-----------------------------------------------------------------------------
(* Claims about the parsing of messages *)

(* C26 (as stated): the url handed to ingestion is the payload's          *)
(* .value.url when the payload is a JSON object that has the field,       *)
(* otherwise its .url when it has that field, otherwise the payload text; *)
(* a message without payload hands nothing to ingestion and leaves the    *)
(* cache alone.                                                           *)
C26_UrlOfPayloadFieldPresent ==
    /\ messagePc = "handed" =>
          Get(handedUrl) =
             (IF messageShape.object /\ messageShape.valueUrl # None
              THEN Get(messageShape.valueUrl)
              ELSE IF messageShape.object /\ messageShape.url # None
              THEN Get(messageShape.url)
              ELSE Get(messageValue))
    /\ (messagePc # "delivered" /\ ~messageShape.value) =>
          /\ messagePc = "skipped"
          /\ handedUrl = None
          /\ recentlyProcessedUrls = {}

(* C26 (amended): the url handed to ingestion is the payload's .value.url *)
(* when the payload is a JSON object that has the field with a non-empty  *)
(* text, otherwise its .url when it has that field with a non-empty text, *)
(* otherwise the payload text; a message without payload hands nothing to *)
(* ingestion and leaves the cache alone.                                  *)
C26_UrlOfPayloadFieldNonEmpty ==
    /\ messagePc = "handed" =>
          Get(handedUrl) =
             (IF /\ messageShape.object
                 /\ messageShape.valueUrl # None
                 /\ Get(messageShape.valueUrl) # <<>>
              THEN Get(messageShape.valueUrl)
              ELSE IF /\ messageShape.object
                      /\ messageShape.url # None
                      /\ Get(messageShape.url) # <<>>
              THEN Get(messageShape.url)
              ELSE Get(messageValue))
    /\ (messagePc # "delivered" /\ ~messageShape.value) =>
          /\ messagePc = "skipped"
          /\ handedUrl = None
          /\ recentlyProcessedUrls = {}

(* both fields present with urls: .value.url wins *)
C26_Witness ==
    /\ messagePc = "handed"
    /\ messageShape.object
    /\ messageShape.valueUrl = Some(UrlA)
    /\ messageShape.url = Some(UrlB)
    /\ messageShape.id
    /\ handedUrl = Some(UrlA)

-----------------------------------------------------------------------------
(* Claims about POST /agent *)

(* C27: a request whose query is missing, is not a string, or is a string *)
(* of blanks only is answered with status 400 and handleQuery is not      *)
(* called for it; every query handleQuery is called with is a non-empty   *)
(* string that neither starts nor ends with a blank.                      *)
C27_MalformedQueryRejected ==
    LET malformed ==
            \/ reqQuery.type # "string"
            \/ \A i \in DOMAIN reqQuery.value : reqQuery.value[i] = " "
    IN  /\ (routePc # "received" /\ malformed) =>
              /\ routePc = "responded"
              /\ httpStatus = Some(400)
              /\ handleQueryArg = None
        /\ handleQueryArg # None =>
              LET a == Get(handleQueryArg) IN
              /\ ~malformed
              /\ a # <<>>
              /\ a[1] # " "
              /\ a[Len(a)] # " "

C27_Witness ==
    /\ routePc = "responded"
    /\ reqQuery = [type |-> "string", value |-> <<" ", " ">>]
    /\ httpStatus = Some(400)
    /\ handleQueryArg = None

=============================================================================
